---- MODULE Spec2Model ----
(***************************************************************************)
(* race_vault (programs/src/lib.rs): a custodial payout / referral-bonus   *)
(* ledger.  Every instruction is one atomic transaction: the account       *)
(* validation of its #[derive(Accounts)] struct runs first, then the       *)
(* handler body; any error rolls the whole transaction back.  So an        *)
(* instruction is a step only when its result is "Ok" (the guard e = "Ok"  *)
(* of each action); a failed instruction leaves every account as it was    *)
(* and returns the error that XxxErr computes.                             *)
(*                                                                         *)
(* Amounts are counted in units of (2^64 - 1) / 3 base tokens, so that     *)
(* u64::MAX is exactly U64_MAX = 3 units and checked_add overflows exactly *)
(* when the sum of units exceeds U64_MAX.  Timestamps (Clock) and the      *)
(* immutable vault_signer_bump are not part of the state.                  *)
(***************************************************************************)
EXTENDS Integers, FiniteSets, Sequences, TLC

VARIABLES
    config,                  \* Config account per mint (PDA ["config", mint])
    global_payout_registry,  \* GlobalPayoutRegistry per config
    payout_receipt,          \* PayoutReceipt per (config, race_id_hash, recipient)
    payout_registry,         \* PayoutRegistry per (config, recipient)
    referral_bonus,          \* ReferralBonus per (config, race_id, referrer, referee)
    referrer_registry,       \* ReferrerRegistry per (config, referrer)
    vault_token,             \* balance of the vault's token account per mint
    wallet_token,            \* balance of the associated token account per (mint, owner)
    overflow_checks          \* whether the deployed build panics on integer overflow

vars == <<config, global_payout_registry, payout_receipt, payout_registry,
          referral_bonus, referrer_registry, vault_token, wallet_token,
          overflow_checks>>

----------------------------------------------------------------------------
(* Bounds of the model *)

\* token supply of each mint, held by the first signer's wallet at the start
Supply == 2
\* Spec: the PayoutReceipt accounts created (both vaults together)
MaxReceipts == 2
\* SpecAdmin: the PayoutReceipt and the ReferralBonus accounts created
AdminMaxReceipts == 1
AdminMaxBonuses == 1
\* SpecLedger: the PayoutReceipt accounts created
LedgerMaxReceipts == 3
\* SpecCount: the PayoutReceipt and the ReferralBonus accounts created after
\* the start
CountMaxReceipts == 2
CountMaxBonuses == 1
\* SpecReferral: the ReferralBonus accounts created
ReferralMaxBonuses == 2

----------------------------------------------------------------------------
(* Program constants and input domains *)

\* u64::MAX in units (see the header)
U64_MAX == 3

\* u32::MAX, the largest payout_count / bonus_count / total_*_count.  The
\* integers of the model checker end at 2^31 - 1, which stands for 2^32 - 1
\* here: the model only compares a count with U32_MAX and adds 1 below it.
U32_MAX == 2147483647

\* Pubkey::default(), the all-zero key
DefaultPubkey == 0

Mints == {"mintA", "mintB"}
Pubkeys == {DefaultPubkey, 1, 2}
\* keys that can sign a transaction
Signers == {1, 2}
RaceIds == {"race-1", "race-2"}
\* a race id of 33 bytes, and the race ids passed to register_referral_bonus
LongRaceId == "race-0123456789012345678901234567"
ReferralRaceIds == RaceIds \cup {LongRaceId}
\* MAX_SEED_LEN: the longest seed a program address can be derived from
MAX_SEED_LEN == 32
Points == {0, 1}
Amounts == {0, 1, 2}

\* hash(race_id.as_bytes()).to_bytes(): an injective digest of the identifier
hash(race_id) ==
    IF race_id = "race-1" THEN 101 ELSE IF race_id = "race-2" THEN 202 ELSE 303
\* the [u8; 32] values passed as race_id_hash; 404 is the digest of no race id
Digests == {101, 202, 404}

\* Option<bool> of update_config
OptionBool == {[some |-> FALSE, value |-> FALSE],
               [some |-> TRUE, value |-> FALSE],
               [some |-> TRUE, value |-> TRUE]}

RegistryKeys == Mints \X Pubkeys

(* The inputs a specification draws from: the mints whose vaults are used,  *)
(* the signers that initialize a vault, the keys passed as recipient /       *)
(* referrer / referee / new authority, the race ids, the points, and the     *)
(* number of receipts and referral records created.                         *)

\* Spec: two vaults, the payout ledger of one recipient (who starts with no tokens)
UPayout ==
    [mints |-> Mints, authorities |-> {1}, keys |-> {2}, races |-> RaceIds,
     points |-> {1}, max_receipts |-> MaxReceipts, max_bonuses |-> 0]
\* SpecLedger: one vault, the payout ledger of three recipients, one of them the
\* all-zero key (the address of the system program)
ULedger ==
    [mints |-> {"mintA"}, authorities |-> {1}, keys |-> Pubkeys,
     races |-> RaceIds, points |-> {1}, max_receipts |-> LedgerMaxReceipts,
     max_bonuses |-> 0]
\* SpecAdmin: one vault, every instruction
UAdmin ==
    [mints |-> {"mintA"}, authorities |-> {1}, keys |-> {1, 2},
     races |-> {"race-1"}, points |-> {1}, max_receipts |-> AdminMaxReceipts,
     max_bonuses |-> AdminMaxBonuses]
\* SpecCount: one vault whose counters are close to u32::MAX, registrations
\* and claims
UCount ==
    [mints |-> {"mintA"}, authorities |-> {1}, keys |-> {1, 2}, races |-> RaceIds,
     points |-> {1}, max_receipts |-> CountMaxReceipts,
     max_bonuses |-> CountMaxBonuses]
\* SpecReferral: one vault, the referral ledger of three referrers, one of them
\* the all-zero key
UReferral ==
    [mints |-> {"mintA"}, authorities |-> {1}, keys |-> Pubkeys,
     races |-> RaceIds, points |-> {1}, max_receipts |-> 0,
     max_bonuses |-> ReferralMaxBonuses]

----------------------------------------------------------------------------
(* Account data.  Config, the registries and the token balances are total  *)
(* functions: an address that holds no account reads as the zeroed record  *)
(* with live = FALSE, which is also what init / init_if_needed hand to the *)
(* handler.  payout_receipt and referral_bonus are the sets of the         *)
(* accounts that exist; config, race_id_hash, recipient (config, race_id,  *)
(* referrer, referee) are the seeds of the address.                        *)

NoConfig == [live |-> FALSE, authority |-> DefaultPubkey, paused |-> FALSE]
NoGlobalPayoutRegistry ==
    [live |-> FALSE, total_pending |-> 0, total_claimed |-> 0,
     total_payout_count |-> 0, total_recipient_count |-> 0]
NoPayoutRegistry ==
    [live |-> FALSE, recipient |-> DefaultPubkey, total_pending |-> 0,
     total_claimed |-> 0, payout_count |-> 0]
NoReferrerRegistry ==
    [live |-> FALSE, referrer |-> DefaultPubkey, total_pending |-> 0,
     total_claimed |-> 0, bonus_count |-> 0]

\* the PayoutReceipt accounts at the PDA ["receipt", config, race_id_hash, recipient]
ReceiptsAt(m, race_id_hash, recipient) ==
    {r \in payout_receipt : /\ r.config = m
                            /\ r.race_id_hash = race_id_hash
                            /\ r.recipient = recipient}

\* the ReferralBonus accounts at the PDA ["referral_bonus", config, race_id, referrer, referee]
BonusesAt(m, race_id, referrer, referee) ==
    {b \in referral_bonus : /\ b.config = m
                            /\ b.race_id = race_id
                            /\ b.referrer = referrer
                            /\ b.referee = referee}

Init ==
    /\ config = [m \in Mints |-> NoConfig]
    /\ global_payout_registry = [m \in Mints |-> NoGlobalPayoutRegistry]
    /\ payout_receipt = {}
    /\ payout_registry = [k \in RegistryKeys |-> NoPayoutRegistry]
    /\ referral_bonus = {}
    /\ referrer_registry = [k \in RegistryKeys |-> NoReferrerRegistry]
    /\ vault_token = [m \in Mints |-> 0]
    /\ wallet_token = [k \in RegistryKeys |-> IF k[2] = 1 THEN Supply ELSE 0]
    /\ overflow_checks \in BOOLEAN

----------------------------------------------------------------------------
(* Arithmetic and the checks the handlers share *)

\* the None of checked_add / checked_sub
NoneU64 == -1

\* checked_add as u64::wrapping_add
wrapping_add(a, b) == (a + b) % (U64_MAX + 1)

\* u64::checked_add
checked_add(a, b) == IF a + b > U64_MAX THEN NoneU64 ELSE a + b

\* u64::checked_sub
checked_sub(a, b) == IF a - b < 0 THEN NoneU64 ELSE a - b

\* the result of a `+= 1` that panicked
PanicU32 == -1

\* `count += 1` on a u32: the plain `+` panics on overflow in a build with
\* overflow checks and wraps in a build without them
inc_u32(count) ==
    IF count < U32_MAX THEN count + 1
    ELSE IF overflow_checks THEN PanicU32
    ELSE 0

\* Paused with the pause check left out of the handlers
Paused_unchecked(m) == FALSE

\* require!(!config.paused, VaultError::ProgramPaused) fails
Paused(m) == config[m].paused

----------------------------------------------------------------------------
(* initialize *)

\* #[derive(Accounts)] Initialize: config and global_payout_registry are `init`
InitializeAccounts(m) ==
    IF config[m].live THEN "AccountAlreadyInUse"
    ELSE IF global_payout_registry[m].live THEN "AccountAlreadyInUse"
    ELSE "Ok"

\* the handler: the Config and the GlobalPayoutRegistry it writes
initialize(authority) ==
    [config |-> [live |-> TRUE, authority |-> authority, paused |-> FALSE],
     global_payout_registry |->
         [live |-> TRUE, total_pending |-> 0, total_claimed |-> 0,
          total_payout_count |-> 0, total_recipient_count |-> 0]]

Initialize(U) ==
    \E m \in U.mints, authority \in U.authorities :
        /\ InitializeAccounts(m) = "Ok"
        /\ config' = [config EXCEPT ![m] = initialize(authority).config]
        /\ global_payout_registry' = [global_payout_registry EXCEPT
               ![m] = initialize(authority).global_payout_registry]
        /\ UNCHANGED <<overflow_checks, payout_receipt, payout_registry, referral_bonus,
                       referrer_registry, vault_token, wallet_token>>

----------------------------------------------------------------------------
(* deposit *)

\* #[derive(Accounts)] Deposit
DepositAccounts(m) ==
    IF ~config[m].live THEN "AccountNotInitialized" ELSE "Ok"

\* the handler: its error ("InsufficientFunds" is token::transfer's)
deposit(m, depositor, amount) ==
    IF ~(amount > 0) THEN "ZeroAmount"
    ELSE IF wallet_token[<<m, depositor>>] < amount THEN "InsufficientFunds"
    ELSE "Ok"

\* the result of the whole instruction
DepositErr(m, depositor, amount) ==
    IF DepositAccounts(m) # "Ok" THEN DepositAccounts(m)
    ELSE deposit(m, depositor, amount)

Deposit(U) ==
    \E m \in U.mints, depositor \in Signers, amount \in Amounts :
        /\ DepositErr(m, depositor, amount) = "Ok"
        /\ wallet_token' = [wallet_token EXCEPT ![<<m, depositor>>] = @ - amount]
        /\ vault_token' = [vault_token EXCEPT ![m] = @ + amount]
        /\ UNCHANGED <<overflow_checks, config, global_payout_registry, payout_receipt, payout_registry,
                       referral_bonus, referrer_registry>>

----------------------------------------------------------------------------
(* reconcile *)

\* #[derive(Accounts)] Reconcile
ReconcileAccounts(m, authority) ==
    IF ~config[m].live THEN "AccountNotInitialized"
    ELSE IF config[m].authority # authority THEN "ConstraintHasOne"
    ELSE "Ok"

\* emits ReconcileEvent; no account is written
Reconcile(U) ==
    \E m \in U.mints, authority \in Signers :
        /\ ReconcileAccounts(m, authority) = "Ok"
        /\ UNCHANGED vars

----------------------------------------------------------------------------
(* register_payout *)

\* RegisterPayoutAccounts with payout_receipt `init_if_needed` instead of `init`
RegisterPayoutAccounts_init_if_needed(m, authority, race_id_hash, recipient) ==
    IF ~config[m].live THEN "AccountNotInitialized"
    ELSE IF config[m].authority # authority THEN "ConstraintHasOne"
    ELSE "Ok"

\* #[derive(Accounts)] RegisterPayout: the accounts are loaded in field order,
\* then the `init` accounts are created (payout_receipt, payout_registry),
\* then the has_one constraints of config are checked.
RegisterPayoutAccounts(m, authority, race_id_hash, recipient) ==
    IF ~config[m].live THEN "AccountNotInitialized"
    ELSE IF ReceiptsAt(m, race_id_hash, recipient) # {} THEN "AccountAlreadyInUse"
    ELSE IF config[m].authority # authority THEN "ConstraintHasOne"
    ELSE "Ok"

\* HashMatches with the require! left out
HashMatches_unchecked(race_id, race_id_hash) == TRUE

\* require!(computed_hash == race_id_hash, VaultError::InvalidRaceIdHash)
HashMatches(race_id, race_id_hash) == hash(race_id) = race_id_hash

\* lines 93-102: the PayoutRegistry after the accrual (total_pending is NoneU64
\* when the checked_add fails)
RegistryAfterPayout(registry, recipient, amount) ==
    [live |-> TRUE,
     recipient |-> IF registry.recipient = DefaultPubkey
                   THEN recipient ELSE registry.recipient,
     total_pending |-> checked_add(registry.total_pending, amount),
     total_claimed |-> registry.total_claimed,
     payout_count |-> inc_u32(registry.payout_count)]

\* GlobalAfterPayout with total_payout_count += 1 moved into `if is_new_recipient`
GlobalAfterPayout_counts_new_only(global_registry, is_new_recipient, amount) ==
    [global_registry EXCEPT
        !.total_pending = checked_add(@, amount),
        !.total_payout_count = IF is_new_recipient THEN inc_u32(@) ELSE @,
        !.total_recipient_count = IF is_new_recipient THEN inc_u32(@) ELSE @]

\* lines 105-111: the GlobalPayoutRegistry after the accrual
GlobalAfterPayout(global_registry, is_new_recipient, amount) ==
    [global_registry EXCEPT
        !.total_pending = checked_add(@, amount),
        !.total_payout_count = inc_u32(@),
        !.total_recipient_count = IF is_new_recipient THEN inc_u32(@) ELSE @]

\* the handler: its error, the receipt it writes, and the two registries as it
\* leaves them
register_payout(m, race_id, race_id_hash, recipient, points, amount) ==
    LET registry == payout_registry[<<m, recipient>>]
        global_registry == global_payout_registry[m]
        is_new_recipient == registry.recipient = DefaultPubkey
        receipt == [config |-> m, race_id_hash |-> race_id_hash,
                    recipient |-> recipient, points |-> points, amount |-> amount]
        registry1 == RegistryAfterPayout(registry, recipient, amount)
        global1 == GlobalAfterPayout(global_registry, is_new_recipient, amount)
        Err(e) == [err |-> e, payout_receipt |-> {},
                   payout_registry |-> registry,
                   global_payout_registry |-> global_registry]
    IN
    IF Paused(m) THEN Err("ProgramPaused")
    ELSE IF ~(amount > 0) THEN Err("ZeroAmount")
    ELSE IF ~HashMatches(race_id, race_id_hash) THEN Err("InvalidRaceIdHash")
    ELSE IF registry1.total_pending = NoneU64 THEN Err("Overflow")
    ELSE IF registry1.payout_count = PanicU32 THEN Err("Panic")
    ELSE IF global1.total_pending = NoneU64 THEN Err("Overflow")
    ELSE IF global1.total_payout_count = PanicU32 THEN Err("Panic")
    ELSE IF global1.total_recipient_count = PanicU32 THEN Err("Panic")
    ELSE [err |-> "Ok", payout_receipt |-> {receipt},
          payout_registry |-> registry1, global_payout_registry |-> global1]

\* the result of the whole instruction
RegisterPayoutErr(m, authority, race_id, race_id_hash, recipient, points, amount) ==
    LET a == RegisterPayoutAccounts(m, authority, race_id_hash, recipient) IN
    IF a # "Ok" THEN a
    ELSE register_payout(m, race_id, race_id_hash, recipient, points, amount).err

RegisterPayout(U) ==
    \E m \in U.mints, authority \in Signers, race_id \in U.races,
       race_id_hash \in Digests, recipient \in U.keys, points \in U.points,
       amount \in Amounts :
        LET r == register_payout(m, race_id, race_id_hash, recipient, points, amount)
        IN
        /\ RegisterPayoutErr(m, authority, race_id, race_id_hash, recipient,
                             points, amount) = "Ok"
        /\ Cardinality(payout_receipt) < U.max_receipts
        /\ payout_receipt' = payout_receipt \cup r.payout_receipt
        /\ payout_registry' = [payout_registry EXCEPT
               ![<<m, recipient>>] = r.payout_registry]
        /\ global_payout_registry' = [global_payout_registry EXCEPT
               ![m] = r.global_payout_registry]
        /\ UNCHANGED <<overflow_checks, config, referral_bonus, referrer_registry, vault_token,
                       wallet_token>>

----------------------------------------------------------------------------
(* claim_pending_payouts *)

\* #[derive(Accounts)] ClaimPendingPayouts.  payout_registry is any PayoutRegistry
\* account of the program (reg is its address: the mint of the config it was
\* created under, and the recipient in its seeds); the only constraint on it is
\* payout_registry.recipient == recipient.key().  payer is any signer.
ClaimPendingPayoutsAccounts(m, payer, recipient, reg) ==
    IF ~config[m].live THEN "AccountNotInitialized"
    ELSE IF ~payout_registry[reg].live THEN "AccountNotInitialized"
    ELSE IF payout_registry[reg].recipient # recipient THEN "ConstraintRaw"
    ELSE "Ok"

\* ClaimDestination with recipient_token the associated token account of the payer
ClaimDestination_payer(payer, recipient) == payer

\* the owner of the token account the claim pays into: recipient_token is the
\* associated token account of (mint, recipient)
ClaimDestination(payer, recipient) == recipient

\* HasPending with the require! left out
HasPending_unchecked(registry) == TRUE

\* require!(registry.total_pending > 0, VaultError::NoPendingPayouts)
HasPending(registry) == registry.total_pending > 0

\* SufficientBalance with the require! left out
SufficientBalance_unchecked(balance, registry) == TRUE

\* require!(vault_token.amount >= registry.total_pending, VaultError::InsufficientBalance)
SufficientBalance(balance, registry) == balance >= registry.total_pending

\* RegistryAfterClaim that resets total_pending without crediting total_claimed
RegistryAfterClaim_reset_only(registry) == [registry EXCEPT !.total_pending = 0]

\* RegistryAfterClaim that also resets payout_count
RegistryAfterClaim_resets_count(registry) ==
    [registry EXCEPT !.total_pending = 0,
                     !.total_claimed = checked_add(@, registry.total_pending),
                     !.payout_count = 0]

\* lines 155-161: the PayoutRegistry after pending moved to claimed
\* (total_claimed is NoneU64 when the checked_add fails)
RegistryAfterClaim(registry) ==
    [registry EXCEPT !.total_pending = 0,
                     !.total_claimed = checked_add(@, registry.total_pending)]

\* GlobalAfterClaim that takes the amount off total_pending without crediting
\* total_claimed
GlobalAfterClaim_pending_only(global_registry, total_pending) ==
    [global_registry EXCEPT !.total_pending = checked_sub(@, total_pending)]

\* lines 163-167: the GlobalPayoutRegistry after pending moved to claimed
GlobalAfterClaim(global_registry, total_pending) ==
    [global_registry EXCEPT !.total_pending = checked_sub(@, total_pending),
                            !.total_claimed = checked_add(@, total_pending)]

\* TransferAmount read from the registry after its total_pending was reset
TransferAmount_after_reset(total_pending, registry1) == registry1.total_pending

\* line 192: the amount of token::transfer
TransferAmount(total_pending, registry1) == total_pending

\* the handler: its error, the two registries as it leaves them, and the
\* transfer it makes.  recipient is the account passed, recipient_arg the
\* instruction argument.
claim_pending_payouts(m, payer, recipient, reg, recipient_arg) ==
    LET registry == payout_registry[reg]
        global_registry == global_payout_registry[m]
        total_pending == registry.total_pending
        registry1 == RegistryAfterClaim(registry)
        global1 == GlobalAfterClaim(global_registry, total_pending)
        Err(e) == [err |-> e, payout_registry |-> registry,
                   global_payout_registry |-> global_registry,
                   transfer |-> 0, to |-> ClaimDestination(payer, recipient)]
    IN
    IF Paused(m) THEN Err("ProgramPaused")
    ELSE IF recipient_arg # recipient THEN Err("InvalidRecipient")
    ELSE IF ~HasPending(registry) THEN Err("NoPendingPayouts")
    ELSE IF ~SufficientBalance(vault_token[m], registry) THEN Err("InsufficientBalance")
    ELSE IF registry1.total_claimed = NoneU64 THEN Err("Overflow")
    ELSE IF global1.total_pending = NoneU64 THEN Err("Overflow")
    ELSE IF global1.total_claimed = NoneU64 THEN Err("Overflow")
    ELSE [err |-> "Ok", payout_registry |-> registry1,
          global_payout_registry |-> global1,
          transfer |-> TransferAmount(total_pending, registry1),
          to |-> ClaimDestination(payer, recipient)]

\* the result of the whole instruction
ClaimPendingPayoutsErr(m, payer, recipient, reg, recipient_arg) ==
    LET a == ClaimPendingPayoutsAccounts(m, payer, recipient, reg) IN
    IF a # "Ok" THEN a
    ELSE claim_pending_payouts(m, payer, recipient, reg, recipient_arg).err

ClaimPendingPayouts(U) ==
    \E m \in U.mints, payer \in Signers, recipient \in U.keys,
       reg \in U.mints \X U.keys, recipient_arg \in U.keys :
        LET r == claim_pending_payouts(m, payer, recipient, reg, recipient_arg) IN
        /\ ClaimPendingPayoutsErr(m, payer, recipient, reg, recipient_arg) = "Ok"
        /\ payout_registry' = [payout_registry EXCEPT ![reg] = r.payout_registry]
        /\ global_payout_registry' = [global_payout_registry EXCEPT
               ![m] = r.global_payout_registry]
        /\ vault_token' = [vault_token EXCEPT ![m] = @ - r.transfer]
        /\ wallet_token' = [wallet_token EXCEPT ![<<m, r.to>>] = @ + r.transfer]
        /\ UNCHANGED <<overflow_checks, config, payout_receipt, referral_bonus, referrer_registry>>

----------------------------------------------------------------------------
(* transfer_authority, update_config, close *)

\* AdminAccounts with the paused check of the ledger handlers
AdminAccounts_paused_gate(m, authority) ==
    IF ~config[m].live THEN "AccountNotInitialized"
    ELSE IF config[m].authority # authority THEN "ConstraintHasOne"
    ELSE IF config[m].paused THEN "ProgramPaused"
    ELSE "Ok"

\* AdminAccounts without has_one = authority
AdminAccounts_no_has_one(m, authority) ==
    IF ~config[m].live THEN "AccountNotInitialized" ELSE "Ok"

\* #[derive(Accounts)] TransferAuthority / UpdateConfig / Close: has_one = authority
AdminAccounts(m, authority) ==
    IF ~config[m].live THEN "AccountNotInitialized"
    ELSE IF config[m].authority # authority THEN "ConstraintHasOne"
    ELSE "Ok"

\* the handler: the Config as it leaves it
transfer_authority(m, new_authority) ==
    [config[m] EXCEPT !.authority = new_authority]

\* new_authority is an instruction argument: any key, also one that no signer
\* holds
TransferAuthority(U) ==
    \E m \in U.mints, authority \in Signers, new_authority \in Pubkeys :
        /\ AdminAccounts(m, authority) = "Ok"
        /\ config' = [config EXCEPT ![m] = transfer_authority(m, new_authority)]
        /\ UNCHANGED <<overflow_checks, global_payout_registry, payout_receipt, payout_registry,
                       referral_bonus, referrer_registry, vault_token, wallet_token>>

\* the handler: the Config as it leaves it
update_config(m, paused) ==
    IF paused.some THEN [config[m] EXCEPT !.paused = paused.value] ELSE config[m]

UpdateConfig(U) ==
    \E m \in U.mints, authority \in Signers, paused \in OptionBool :
        /\ AdminAccounts(m, authority) = "Ok"
        /\ config' = [config EXCEPT ![m] = update_config(m, paused)]
        /\ UNCHANGED <<overflow_checks, global_payout_registry, payout_receipt, payout_registry,
                       referral_bonus, referrer_registry, vault_token, wallet_token>>

\* `close = authority`: the Config account is removed; the handler writes nothing
close(m) == NoConfig

Close(U) ==
    \E m \in U.mints, authority \in Signers :
        /\ AdminAccounts(m, authority) = "Ok"
        /\ config' = [config EXCEPT ![m] = close(m)]
        /\ UNCHANGED <<overflow_checks, global_payout_registry, payout_receipt, payout_registry,
                       referral_bonus, referrer_registry, vault_token, wallet_token>>

----------------------------------------------------------------------------
(* register_referral_bonus *)

\* RegisterReferralBonusAccounts with referral_bonus `init_if_needed` instead of `init`
RegisterReferralBonusAccounts_init_if_needed(m, authority, race_id, referrer, referee) ==
    IF ~config[m].live THEN "AccountNotInitialized"
    ELSE IF Len(race_id) > MAX_SEED_LEN THEN "MaxSeedLengthExceeded"
    ELSE IF config[m].authority # authority THEN "ConstraintHasOne"
    ELSE "Ok"

\* #[derive(Accounts)] RegisterReferralBonus: referral_bonus is `init` at the
\* address derived from the seeds, race_id.as_bytes() among them (the derivation
\* fails on a seed longer than MAX_SEED_LEN), referrer_registry is
\* `init_if_needed`, then has_one = authority
RegisterReferralBonusAccounts(m, authority, race_id, referrer, referee) ==
    IF ~config[m].live THEN "AccountNotInitialized"
    ELSE IF Len(race_id) > MAX_SEED_LEN THEN "MaxSeedLengthExceeded"
    ELSE IF BonusesAt(m, race_id, referrer, referee) # {} THEN "AccountAlreadyInUse"
    ELSE IF config[m].authority # authority THEN "ConstraintHasOne"
    ELSE "Ok"

\* NotSelfReferral with the require! left out
NotSelfReferral_unchecked(referrer, referee) == TRUE

\* require!(referrer != referee, VaultError::SelfReferralNotAllowed)
NotSelfReferral(referrer, referee) == referrer # referee

\* the handler: its error, the record it writes, and the registry as it
\* leaves it
register_referral_bonus(m, race_id, referrer, referee, amount) ==
    LET registry == referrer_registry[<<m, referrer>>]
        bonus == [config |-> m, race_id |-> race_id, referrer |-> referrer,
                  referee |-> referee, amount |-> amount, claimed |-> FALSE]
        Err(e) == [err |-> e, referral_bonus |-> {}, referrer_registry |-> registry]
    IN
    IF Paused(m) THEN Err("ProgramPaused")
    ELSE IF ~(amount > 0) THEN Err("ZeroAmount")
    ELSE IF ~(Len(race_id) <= 32) THEN Err("RaceIdTooLong")
    ELSE IF ~NotSelfReferral(referrer, referee) THEN Err("SelfReferralNotAllowed")
    ELSE IF checked_add(registry.total_pending, amount) = NoneU64 THEN Err("Overflow")
    ELSE IF inc_u32(registry.bonus_count) = PanicU32 THEN Err("Panic")
    ELSE [err |-> "Ok",
          referral_bonus |-> {bonus},
          referrer_registry |->
              [live |-> TRUE,
               referrer |-> IF registry.referrer = DefaultPubkey
                            THEN referrer ELSE registry.referrer,
               total_pending |-> registry.total_pending + amount,
               total_claimed |-> registry.total_claimed,
               bonus_count |-> inc_u32(registry.bonus_count)]]

\* the result of the whole instruction
RegisterReferralBonusErr(m, authority, race_id, referrer, referee, amount) ==
    LET a == RegisterReferralBonusAccounts(m, authority, race_id, referrer, referee) IN
    IF a # "Ok" THEN a
    ELSE register_referral_bonus(m, race_id, referrer, referee, amount).err

RegisterReferralBonus(U) ==
    \E m \in U.mints, authority \in Signers, race_id \in U.races, referrer \in U.keys,
       referee \in U.keys, amount \in Amounts :
        LET r == register_referral_bonus(m, race_id, referrer, referee, amount) IN
        /\ RegisterReferralBonusErr(m, authority, race_id, referrer, referee, amount) = "Ok"
        /\ Cardinality(referral_bonus) < U.max_bonuses
        /\ referral_bonus' = referral_bonus \cup r.referral_bonus
        /\ referrer_registry' = [referrer_registry EXCEPT
               ![<<m, referrer>>] = r.referrer_registry]
        /\ UNCHANGED <<overflow_checks, config, global_payout_registry, payout_receipt, payout_registry,
                       vault_token, wallet_token>>

----------------------------------------------------------------------------
(* claim_pending_bonuses *)

\* #[derive(Accounts)] ClaimPendingBonuses.  referrer_registry is any
\* ReferrerRegistry account of the program (reg is its address); the only
\* constraint on it is referrer_registry.referrer == referrer.key().
ClaimPendingBonusesAccounts(m, payer, referrer, reg) ==
    IF ~config[m].live THEN "AccountNotInitialized"
    ELSE IF ~referrer_registry[reg].live THEN "AccountNotInitialized"
    ELSE IF referrer_registry[reg].referrer # referrer THEN "ConstraintRaw"
    ELSE "Ok"

\* ReferrerRegistryAfterClaim that credits total_claimed and leaves total_pending
ReferrerRegistryAfterClaim_keeps_pending(registry) ==
    [registry EXCEPT !.total_claimed = checked_add(@, registry.total_pending)]

\* lines 327-333: the ReferrerRegistry after pending moved to claimed
\* (total_claimed is NoneU64 when the checked_add fails)
ReferrerRegistryAfterClaim(registry) ==
    [registry EXCEPT !.total_pending = 0,
                     !.total_claimed = checked_add(@, registry.total_pending)]

\* RecordsAfterClaim that marks the records of the registry's referrer claimed
RecordsAfterClaim_marks_claimed(reg) ==
    {IF b.config = reg[1] /\ b.referrer = reg[2]
     THEN [b EXCEPT !.claimed = TRUE] ELSE b : b \in referral_bonus}

\* ClaimPendingBonuses holds no ReferralBonus account: the records stay as they
\* are, their claimed flag included
RecordsAfterClaim(reg) == referral_bonus

\* the handler: its error, the registry and the records as it leaves them, and
\* the transfer
claim_pending_bonuses(m, referrer, reg) ==
    LET registry == referrer_registry[reg]
        amount_to_claim == registry.total_pending
        registry1 == ReferrerRegistryAfterClaim(registry)
        Err(e) == [err |-> e, referrer_registry |-> registry,
                   referral_bonus |-> referral_bonus, transfer |-> 0]
    IN
    IF Paused(m) THEN Err("ProgramPaused")
    ELSE IF ~(registry.total_pending > 0) THEN Err("NoPendingBonuses")
    ELSE IF ~(vault_token[m] >= registry.total_pending) THEN Err("InsufficientBalance")
    ELSE IF registry1.total_claimed = NoneU64 THEN Err("Overflow")
    ELSE [err |-> "Ok", referrer_registry |-> registry1,
          referral_bonus |-> RecordsAfterClaim(reg),
          transfer |-> amount_to_claim]

\* the result of the whole instruction
ClaimPendingBonusesErr(m, payer, referrer, reg) ==
    LET a == ClaimPendingBonusesAccounts(m, payer, referrer, reg) IN
    IF a # "Ok" THEN a ELSE claim_pending_bonuses(m, referrer, reg).err

ClaimPendingBonuses(U) ==
    \E m \in U.mints, payer \in Signers, referrer \in U.keys,
       reg \in U.mints \X U.keys :
        LET r == claim_pending_bonuses(m, referrer, reg) IN
        /\ ClaimPendingBonusesErr(m, payer, referrer, reg) = "Ok"
        /\ referrer_registry' = [referrer_registry EXCEPT ![reg] = r.referrer_registry]
        /\ referral_bonus' = r.referral_bonus
        /\ vault_token' = [vault_token EXCEPT ![m] = @ - r.transfer]
        /\ wallet_token' = [wallet_token EXCEPT ![<<m, referrer>>] = @ + r.transfer]
        /\ UNCHANGED <<overflow_checks, config, global_payout_registry, payout_receipt, payout_registry>>

----------------------------------------------------------------------------
(* get_pending_bonuses, get_all_bonuses, get_pending_payouts,              *)
(* get_global_payout_stats: no account of their Accounts structs is `mut`, *)
(* the handlers return a copy of the registry passed (last_updated is not  *)
(* part of the state)                                                      *)

\* #[derive(Accounts)] GetPendingBonuses / GetAllBonuses: referrer_registry is
\* any ReferrerRegistry account with referrer_registry.referrer == referrer.key()
GetBonusesAccounts(m, referrer, reg) ==
    IF ~config[m].live THEN "AccountNotInitialized"
    ELSE IF ~referrer_registry[reg].live THEN "AccountNotInitialized"
    ELSE IF referrer_registry[reg].referrer # referrer THEN "ConstraintRaw"
    ELSE "Ok"

\* get_pending_bonuses returning a default ReferrerRegistry
get_pending_bonuses_default(reg) ==
    [referrer |-> DefaultPubkey, total_pending |-> 0, total_claimed |-> 0,
     bonus_count |-> 0]

\* the handler: the ReferrerRegistry it returns
get_pending_bonuses(reg) ==
    [referrer |-> referrer_registry[reg].referrer,
     total_pending |-> referrer_registry[reg].total_pending,
     total_claimed |-> referrer_registry[reg].total_claimed,
     bonus_count |-> referrer_registry[reg].bonus_count]

GetPendingBonuses(U) ==
    \E m \in U.mints, referrer \in U.keys, reg \in U.mints \X U.keys :
        /\ GetBonusesAccounts(m, referrer, reg) = "Ok"
        /\ UNCHANGED vars

\* the handler: the ReferrerRegistry it returns
get_all_bonuses(reg) ==
    [referrer |-> referrer_registry[reg].referrer,
     total_pending |-> referrer_registry[reg].total_pending,
     total_claimed |-> referrer_registry[reg].total_claimed,
     bonus_count |-> referrer_registry[reg].bonus_count]

GetAllBonuses(U) ==
    \E m \in U.mints, referrer \in U.keys, reg \in U.mints \X U.keys :
        /\ GetBonusesAccounts(m, referrer, reg) = "Ok"
        /\ UNCHANGED vars

\* GetPendingPayoutsAccounts with the paused check of the mutating handlers
GetPendingPayoutsAccounts_paused_gate(m, recipient, reg) ==
    IF ~config[m].live THEN "AccountNotInitialized"
    ELSE IF ~payout_registry[reg].live THEN "AccountNotInitialized"
    ELSE IF payout_registry[reg].recipient # recipient THEN "ConstraintRaw"
    ELSE IF config[m].paused THEN "ProgramPaused"
    ELSE "Ok"

\* #[derive(Accounts)] GetPendingPayouts: payout_registry is any PayoutRegistry
\* account with payout_registry.recipient == recipient.key()
GetPendingPayoutsAccounts(m, recipient, reg) ==
    IF ~config[m].live THEN "AccountNotInitialized"
    ELSE IF ~payout_registry[reg].live THEN "AccountNotInitialized"
    ELSE IF payout_registry[reg].recipient # recipient THEN "ConstraintRaw"
    ELSE "Ok"

\* the handler: the PayoutRegistry it returns
get_pending_payouts(reg) ==
    [recipient |-> payout_registry[reg].recipient,
     total_pending |-> payout_registry[reg].total_pending,
     total_claimed |-> payout_registry[reg].total_claimed,
     payout_count |-> payout_registry[reg].payout_count]

GetPendingPayouts(U) ==
    \E m \in U.mints, recipient \in U.keys, reg \in U.mints \X U.keys :
        /\ GetPendingPayoutsAccounts(m, recipient, reg) = "Ok"
        /\ UNCHANGED vars

\* #[derive(Accounts)] GetGlobalPayoutStats: global_payout_registry at its seeds
GetGlobalPayoutStatsAccounts(m) ==
    IF ~config[m].live THEN "AccountNotInitialized"
    ELSE IF ~global_payout_registry[m].live THEN "AccountNotInitialized"
    ELSE "Ok"

\* the handler: the GlobalPayoutRegistry it returns
get_global_payout_stats(m) ==
    [total_pending |-> global_payout_registry[m].total_pending,
     total_claimed |-> global_payout_registry[m].total_claimed,
     total_payout_count |-> global_payout_registry[m].total_payout_count,
     total_recipient_count |-> global_payout_registry[m].total_recipient_count]

GetGlobalPayoutStats(U) ==
    \E m \in U.mints :
        /\ GetGlobalPayoutStatsAccounts(m) = "Ok"
        /\ UNCHANGED vars

----------------------------------------------------------------------------
(* Specifications *)

\* two vaults, the payout ledger
Next ==
    \/ Initialize(UPayout)
    \/ Deposit(UPayout)
    \/ RegisterPayout(UPayout)
    \/ ClaimPendingPayouts(UPayout)

Spec == Init /\ [][Next]_vars

\* one vault, every instruction
NextAdmin ==
    \/ Initialize(UAdmin)
    \/ Deposit(UAdmin)
    \/ Reconcile(UAdmin)
    \/ RegisterPayout(UAdmin)
    \/ ClaimPendingPayouts(UAdmin)
    \/ TransferAuthority(UAdmin)
    \/ UpdateConfig(UAdmin)
    \/ Close(UAdmin)
    \/ RegisterReferralBonus(UAdmin)
    \/ ClaimPendingBonuses(UAdmin)
    \/ GetPendingBonuses(UAdmin)
    \/ GetAllBonuses(UAdmin)
    \/ GetPendingPayouts(UAdmin)
    \/ GetGlobalPayoutStats(UAdmin)

SpecAdmin == Init /\ [][NextAdmin]_vars

\* one vault, the payout ledger of three recipients
NextLedger ==
    \/ Initialize(ULedger)
    \/ Deposit(ULedger)
    \/ RegisterPayout(ULedger)
    \/ ClaimPendingPayouts(ULedger)

SpecLedger == Init /\ [][NextLedger]_vars

\* one vault, the referral ledger of three referrers
NextReferral ==
    \/ Initialize(UReferral)
    \/ Deposit(UReferral)
    \/ RegisterReferralBonus(UReferral)
    \/ ClaimPendingBonuses(UReferral)

SpecReferral == Init /\ [][NextReferral]_vars

(* One vault late in its life: after initialize and a deposit of 2 units by  *)
(* signer 1, the authority has registered c payouts for recipient 2 (or one   *)
(* payout for each of c recipients) and c referral bonuses for referrer 2,   *)
(* c one or two short of u32::MAX, and key 2 has claimed the unit the         *)
(* payouts add up to and the unit the bonuses add up to.  The receipts and   *)
(* records of those registrations are not enumerated: payout_receipt and      *)
(* referral_bonus hold the accounts created after this state.                *)
NearMax == {U32_MAX - 1, U32_MAX}

InitCount ==
    \E payouts \in NearMax, bonuses \in NearMax, one_recipient \in BOOLEAN :
        /\ config = [m \in Mints |->
               IF m = "mintA"
               THEN [live |-> TRUE, authority |-> 1, paused |-> FALSE]
               ELSE NoConfig]
        /\ global_payout_registry = [m \in Mints |->
               IF m = "mintA"
               THEN [live |-> TRUE, total_pending |-> 0, total_claimed |-> 1,
                     total_payout_count |-> payouts,
                     total_recipient_count |-> IF one_recipient THEN 1 ELSE payouts]
               ELSE NoGlobalPayoutRegistry]
        /\ payout_receipt = {}
        /\ payout_registry = [k \in RegistryKeys |->
               IF k = <<"mintA", 2>>
               THEN [live |-> TRUE, recipient |-> 2, total_pending |-> 0,
                     total_claimed |-> 1,
                     payout_count |-> IF one_recipient THEN payouts ELSE 1]
               ELSE NoPayoutRegistry]
        /\ referral_bonus = {}
        /\ referrer_registry = [k \in RegistryKeys |->
               IF k = <<"mintA", 2>>
               THEN [live |-> TRUE, referrer |-> 2, total_pending |-> 0,
                     total_claimed |-> 1, bonus_count |-> bonuses]
               ELSE NoReferrerRegistry]
        /\ vault_token = [m \in Mints |-> 0]
        /\ wallet_token = [k \in RegistryKeys |->
               IF k = <<"mintA", 1>> THEN Supply - 2
               ELSE IF k = <<"mintA", 2>> THEN 2
               ELSE IF k[2] = 1 THEN Supply ELSE 0]
        /\ overflow_checks \in BOOLEAN

NextCount ==
    \/ Deposit(UCount)
    \/ RegisterPayout(UCount)
    \/ ClaimPendingPayouts(UCount)
    \/ RegisterReferralBonus(UCount)
    \/ ClaimPendingBonuses(UCount)

SpecCount == InitCount /\ [][NextCount]_vars

----------------------------------------------------------------------------
(* Measures of the ledger *)

\* the PayoutReceipt accounts of a vault, and those of one recipient of it
ReceiptsIn(m) == {r \in payout_receipt : r.config = m}
ReceiptsOf(m, recipient) == {r \in ReceiptsIn(m) : r.recipient = recipient}

RECURSIVE SumAmounts(_)
\* the sum of PayoutReceipt.amount over a set of receipts
SumAmounts(S) ==
    IF S = {} THEN 0
    ELSE LET r == CHOOSE x \in S : TRUE IN r.amount + SumAmounts(S \ {r})

RECURSIVE SumPending(_, _)
\* the sum of PayoutRegistry.total_pending over the registries of vault m at keys K
SumPending(m, K) ==
    IF K = {} THEN 0
    ELSE LET k == CHOOSE x \in K : TRUE
         IN payout_registry[<<m, k>>].total_pending + SumPending(m, K \ {k})

RECURSIVE SumClaimed(_, _)
\* the sum of PayoutRegistry.total_claimed over the registries of vault m at keys K
SumClaimed(m, K) ==
    IF K = {} THEN 0
    ELSE LET k == CHOOSE x \in K : TRUE
         IN payout_registry[<<m, k>>].total_claimed + SumClaimed(m, K \ {k})

----------------------------------------------------------------------------
(* Properties *)

\* C1: in every reachable state, GlobalPayoutRegistry.total_pending of a vault
\* equals the sum of PayoutRegistry.total_pending over all recipients of that
\* vault.
C1_GlobalPendingIsSum ==
    \A m \in Mints :
        global_payout_registry[m].total_pending = SumPending(m, Pubkeys)

\* C2: conservation.  For every recipient of every vault, total_pending +
\* total_claimed of its PayoutRegistry equals the sum of the amounts of the
\* PayoutReceipts written for that recipient.
C2_Conservation ==
    \A k \in RegistryKeys :
        payout_registry[k].total_pending + payout_registry[k].total_claimed
            = SumAmounts(ReceiptsOf(k[1], k[2]))

\* a registry with two receipts, part of them claimed and part still pending
C2_Witness ==
    \E k \in RegistryKeys :
        /\ Cardinality(ReceiptsOf(k[1], k[2])) = 2
        /\ payout_registry[k].total_pending > 0
        /\ payout_registry[k].total_claimed > 0

\* C3: idempotent registration.  While the vault's Config exists, register_payout
\* for a (race_id_hash, recipient) key that already has a PayoutReceipt fails
\* with the account-already-in-use error, whoever signs and whatever race_id,
\* points and amount are passed and whether or not the vault is paused; there
\* is one receipt per key, and the counts and totals of the recipient's and of
\* the global registry are those of one accrual per receipt.
C3_IdempotentRegistration ==
    /\ \A m \in Mints, authority \in Signers, race_id \in RaceIds,
          race_id_hash \in Digests, recipient \in Pubkeys, points \in Points,
          amount \in Amounts :
           (config[m].live /\ ReceiptsAt(m, race_id_hash, recipient) # {})
               => RegisterPayoutErr(m, authority, race_id, race_id_hash, recipient,
                                    points, amount) = "AccountAlreadyInUse"
    /\ \A r \in payout_receipt :
           Cardinality(ReceiptsAt(r.config, r.race_id_hash, r.recipient)) = 1
    /\ \A k \in RegistryKeys :
           /\ payout_registry[k].payout_count = Cardinality(ReceiptsOf(k[1], k[2]))
           /\ payout_registry[k].total_pending + payout_registry[k].total_claimed
                  = SumAmounts(ReceiptsOf(k[1], k[2]))
    /\ \A m \in Mints :
           /\ global_payout_registry[m].total_payout_count = Cardinality(ReceiptsIn(m))
           /\ global_payout_registry[m].total_pending
                  + global_payout_registry[m].total_claimed = SumAmounts(ReceiptsIn(m))

\* a receipt exists in a vault that is live and paused: a replay of its key is
\* stopped by the receipt, before the handler runs
C3_Witness ==
    \E r \in payout_receipt :
        /\ config[r.config].live
        /\ config[r.config].paused
        /\ payout_registry[<<r.config, r.recipient>>].payout_count = 1

\* C4: a successful claim_pending_payouts on a registry whose total_pending is
\* P > 0 sets the registry's total_pending to 0, adds P to its total_claimed,
\* subtracts P from the vault's GlobalPayoutRegistry.total_pending, adds P to its
\* total_claimed, and moves P from the vault's token account to the token
\* account of the registry's recipient, in one step that changes nothing else.
\* (In Spec the steps that leave config and payout_receipt as they are and
\* raise no vault balance are the claims.)
C4_ClaimEffects ==
    [][ ( /\ config' = config
          /\ payout_receipt' = payout_receipt
          /\ \A m \in Mints : vault_token'[m] <= vault_token[m] )
        => \E m \in Mints, reg \in RegistryKeys :
              LET P == payout_registry[reg].total_pending
                  recipient == payout_registry[reg].recipient
              IN
              /\ P > 0
              /\ payout_registry' = [payout_registry EXCEPT
                     ![reg] = [@ EXCEPT !.total_pending = 0,
                                        !.total_claimed = @ + P]]
              /\ global_payout_registry' = [global_payout_registry EXCEPT
                     ![m] = [@ EXCEPT !.total_pending = @ - P,
                                      !.total_claimed = @ + P]]
              /\ vault_token' = [vault_token EXCEPT ![m] = @ - P]
              /\ wallet_token' = [wallet_token EXCEPT ![<<m, recipient>>] = @ + P]
              /\ UNCHANGED <<referral_bonus, referrer_registry>> ]_vars

\* recipient 2, whose wallet starts empty, has claimed 2 units in full
C4_Witness ==
    \E m \in Mints :
        /\ payout_registry[<<m, 2>>].total_pending = 0
        /\ payout_registry[<<m, 2>>].total_claimed = 2
        /\ global_payout_registry[m].total_claimed = 2
        /\ wallet_token[<<m, 2>>] = 2

\* C5: when the vault's balance is less than the registry's total_pending,
\* claim_pending_payouts fails, whoever calls it; the handler transfers nothing
\* and leaves the registry and the global registry as they are; and the error
\* is InsufficientBalance when the call gets as far as the balance check (the
\* accounts validate, the vault is not paused, the recipient argument matches).
C5_InsufficientLiquidity ==
    \A m \in Mints, payer \in Signers, recipient \in Pubkeys, reg \in RegistryKeys,
       recipient_arg \in Pubkeys :
        LET r == claim_pending_payouts(m, payer, recipient, reg, recipient_arg)
            e == ClaimPendingPayoutsErr(m, payer, recipient, reg, recipient_arg)
        IN
        vault_token[m] < payout_registry[reg].total_pending =>
            /\ e # "Ok"
            /\ r.transfer = 0
            /\ r.payout_registry = payout_registry[reg]
            /\ r.global_payout_registry = global_payout_registry[m]
            /\ ( /\ ClaimPendingPayoutsAccounts(m, payer, recipient, reg) = "Ok"
                 /\ ~config[m].paused
                 /\ recipient_arg = recipient ) => e = "InsufficientBalance"

\* a funded vault whose balance is short of what one of its registries is owed
C5_Witness ==
    \E k \in RegistryKeys :
        /\ config[k[1]].live
        /\ payout_registry[k].live
        /\ vault_token[k[1]] > 0
        /\ vault_token[k[1]] < payout_registry[k].total_pending

\* C6: claim_pending_payouts on a registry whose total_pending is 0 fails,
\* whoever calls it, and the handler transfers nothing; the error is
\* NoPendingPayouts when the call gets as far as that check (the accounts
\* validate, the vault is not paused, the recipient argument matches).  A claim
\* leaves total_pending at 0, so the claim repeated after it is such a call.
C6_NoPendingNoPayment ==
    \A m \in Mints, payer \in Signers, recipient \in Pubkeys, reg \in RegistryKeys,
       recipient_arg \in Pubkeys :
        LET r == claim_pending_payouts(m, payer, recipient, reg, recipient_arg)
            e == ClaimPendingPayoutsErr(m, payer, recipient, reg, recipient_arg)
        IN
        payout_registry[reg].total_pending = 0 =>
            /\ e # "Ok"
            /\ r.transfer = 0
            /\ r.payout_registry = payout_registry[reg]
            /\ ( /\ ClaimPendingPayoutsAccounts(m, payer, recipient, reg) = "Ok"
                 /\ ~config[m].paused
                 /\ recipient_arg = recipient ) => e = "NoPendingPayouts"

\* a registry just claimed in full, in a vault that still holds funds
C6_Witness ==
    \E k \in RegistryKeys :
        /\ config[k[1]].live
        /\ payout_registry[k].live
        /\ payout_registry[k].total_pending = 0
        /\ payout_registry[k].total_claimed > 0
        /\ vault_token[k[1]] > 0

\* C7 as stated: in every state where Config.paused is true, register_payout
\* called by the authority with a valid hash, and claim_pending_payouts on an
\* existing registry with its recipient, fail with the paused error whatever
\* their other arguments.
C7_AlwaysPausedError ==
    \A m \in Mints :
        (config[m].live /\ config[m].paused) =>
            /\ \A race_id \in RaceIds, recipient \in Signers, points \in Points,
                  amount \in Amounts :
                   RegisterPayoutErr(m, config[m].authority, race_id, hash(race_id),
                                     recipient, points, amount) = "ProgramPaused"
            /\ \A payer \in Signers, reg \in RegistryKeys :
                   payout_registry[reg].live =>
                       ClaimPendingPayoutsErr(m, payer, payout_registry[reg].recipient,
                           reg, payout_registry[reg].recipient) = "ProgramPaused"

\* C7, amended: in every state where Config.paused is true, register_payout and
\* claim_pending_payouts fail whatever their arguments and whoever calls them,
\* the handlers write no receipt, leave the registry and the global registry
\* as they are and transfer nothing; the error is the paused error whenever the
\* accounts of the call validate (a call whose accounts do not validate, such
\* as a registration for a key that already has a receipt, fails with the
\* validation error instead).
C7_PauseGate ==
    \A m \in Mints :
        (config[m].live /\ config[m].paused) =>
            /\ \A authority \in Signers, race_id \in RaceIds, race_id_hash \in Digests,
                  recipient \in Pubkeys, points \in Points, amount \in Amounts :
                   LET r == register_payout(m, race_id, race_id_hash, recipient,
                                            points, amount)
                       e == RegisterPayoutErr(m, authority, race_id, race_id_hash,
                                              recipient, points, amount)
                   IN
                   /\ e # "Ok"
                   /\ r.payout_receipt = {}
                   /\ r.payout_registry = payout_registry[<<m, recipient>>]
                   /\ r.global_payout_registry = global_payout_registry[m]
                   /\ RegisterPayoutAccounts(m, authority, race_id_hash, recipient)
                          = "Ok" => e = "ProgramPaused"
            /\ \A payer \in Signers, recipient \in Pubkeys, reg \in RegistryKeys,
                  recipient_arg \in Pubkeys :
                   LET r == claim_pending_payouts(m, payer, recipient, reg,
                                                  recipient_arg)
                       e == ClaimPendingPayoutsErr(m, payer, recipient, reg,
                                                   recipient_arg)
                   IN
                   /\ e # "Ok"
                   /\ r.transfer = 0
                   /\ r.payout_registry = payout_registry[reg]
                   /\ r.global_payout_registry = global_payout_registry[m]
                   /\ ClaimPendingPayoutsAccounts(m, payer, recipient, reg) = "Ok"
                          => e = "ProgramPaused"

\* a paused vault with a receipt, a registry that is owed and the funds to pay it
C7_Witness ==
    \E k \in RegistryKeys :
        /\ config[k[1]].live
        /\ config[k[1]].paused
        /\ ReceiptsOf(k[1], k[2]) # {}
        /\ payout_registry[k].total_pending > 0
        /\ vault_token[k[1]] >= payout_registry[k].total_pending

\* C8: authorization.  register_payout, register_referral_bonus, update_config,
\* transfer_authority and close succeed only when the vault's Config exists and
\* the signer is its current authority (a failed call is no step and changes
\* nothing), and the current authority passes the authority check of each of
\* them; a transfer_authority step makes new_authority the authority, after
\* which the previous authority is refused and the new one accepted.
C8_Authorization ==
    /\ [](\A m \in Mints, signer \in Signers :
            /\ \A race_id \in RaceIds, race_id_hash \in Digests, recipient \in Pubkeys,
                  points \in Points, amount \in Amounts :
                   RegisterPayoutErr(m, signer, race_id, race_id_hash, recipient,
                                     points, amount) = "Ok"
                       => (config[m].live /\ config[m].authority = signer)
            /\ \A race_id \in RaceIds, referrer \in Pubkeys, referee \in Pubkeys,
                  amount \in Amounts :
                   RegisterReferralBonusErr(m, signer, race_id, referrer, referee,
                                            amount) = "Ok"
                       => (config[m].live /\ config[m].authority = signer)
            /\ AdminAccounts(m, signer) = "Ok"
                   <=> (config[m].live /\ config[m].authority = signer)
            /\ (config[m].live /\ config[m].authority = signer) =>
                   \A race_id_hash \in Digests, race_id \in RaceIds,
                      recipient \in Pubkeys, referee \in Pubkeys :
                       /\ RegisterPayoutAccounts(m, signer, race_id_hash, recipient)
                              # "ConstraintHasOne"
                       /\ RegisterReferralBonusAccounts(m, signer, race_id, recipient,
                              referee) # "ConstraintHasOne")
    /\ [][\A m \in Mints, previous \in Signers, new \in Signers :
            ( /\ config[m].live
              /\ config[m].authority = previous
              /\ config'[m].live
              /\ config'[m].authority = new
              /\ new # previous )
            => /\ config' = [config EXCEPT ![m] = transfer_authority(m, new)]
               /\ (AdminAccounts(m, previous))' = "ConstraintHasOne"
               /\ (AdminAccounts(m, new))' = "Ok"
               /\ \A race_id \in RaceIds, recipient \in Signers :
                      /\ ReceiptsAt(m, hash(race_id), recipient) = {}
                             => (RegisterPayoutErr(m, previous, race_id,
                                    hash(race_id), recipient, 1, 1))'
                                    = "ConstraintHasOne"
                      /\ (RegisterPayoutErr(m, new, race_id, hash(race_id),
                             recipient, 1, 1))' # "ConstraintHasOne"
         ]_vars

\* the authority was transferred from signer 1, the only one to initialize a
\* vault, to signer 2
C8_Witness ==
    \E m \in Mints :
        /\ config[m].live
        /\ config[m].authority = 2
        /\ AdminAccounts(m, 1) = "ConstraintHasOne"
        /\ AdminAccounts(m, 2) = "Ok"

\* C9: permissionless claim with fixed destination.  The result of
\* claim_pending_payouts does not depend on the payer, and in every step the
\* only token account credited is that of the recipient recorded in the
\* PayoutRegistry being claimed, by exactly the registry's total_pending.
C9_PermissionlessFixedDestination ==
    /\ [](\A m \in Mints, p1 \in Signers, p2 \in Signers, recipient \in Pubkeys,
            reg \in RegistryKeys, recipient_arg \in Pubkeys :
              ClaimPendingPayoutsErr(m, p1, recipient, reg, recipient_arg)
                  = ClaimPendingPayoutsErr(m, p2, recipient, reg, recipient_arg))
    /\ [][\A k \in RegistryKeys :
            wallet_token'[k] > wallet_token[k] =>
                /\ \E reg \in RegistryKeys :
                       /\ payout_registry[reg].live
                       /\ payout_registry[reg].recipient = k[2]
                       /\ payout_registry[reg].total_pending
                              = wallet_token'[k] - wallet_token[k]
                       /\ payout_registry'[reg].total_pending = 0
                       /\ \A other \in RegistryKeys \ {reg} :
                              payout_registry'[other] = payout_registry[other]
                /\ \A other \in RegistryKeys \ {k} :
                       wallet_token'[other] = wallet_token[other]
         ]_vars

\* recipient 2, who holds no tokens to begin with and makes no deposit, was paid
C9_Witness ==
    \E m \in Mints :
        /\ wallet_token[<<m, 2>>] > 0
        /\ \E reg \in RegistryKeys :
               /\ payout_registry[reg].recipient = 2
               /\ payout_registry[reg].total_claimed > 0

\* C10: in every reachable state, GlobalPayoutRegistry.total_claimed of a vault
\* equals the sum of PayoutRegistry.total_claimed over all recipients of that
\* vault.
C10_GlobalClaimedIsSum ==
    \A m \in Mints :
        global_payout_registry[m].total_claimed = SumClaimed(m, Pubkeys)

RECURSIVE SumCount(_, _)
\* the sum of PayoutRegistry.payout_count over the registries of vault m at keys K
SumCount(m, K) ==
    IF K = {} THEN 0
    ELSE LET k == CHOOSE x \in K : TRUE
         IN payout_registry[<<m, k>>].payout_count + SumCount(m, K \ {k})

\* C11: in every reachable state, GlobalPayoutRegistry.total_payout_count of a
\* vault equals the sum of PayoutRegistry.payout_count over all recipients of
\* that vault.
C11_GlobalCountIsSum ==
    \A m \in Mints :
        global_payout_registry[m].total_payout_count = SumCount(m, Pubkeys)

\* three payouts registered in one vault, two of them for the same recipient
C11_Witness ==
    \E m \in Mints, r1 \in Pubkeys, r2 \in Pubkeys :
        /\ r1 # r2
        /\ payout_registry[<<m, r1>>].payout_count = 2
        /\ payout_registry[<<m, r2>>].payout_count = 1
        /\ global_payout_registry[m].total_payout_count = 3

\* C12: after close, a recipient whose PayoutRegistry.total_pending is P > 0,
\* with a vault balance of at least P, can still have P paid out by
\* claim_pending_payouts, and likewise a referrer by claim_pending_bonuses:
\* some caller's claim succeeds, or else some signer can initialize the vault
\* again.
C12_ClaimableAfterClose ==
    \A m \in Mints, k \in Pubkeys :
        (~config[m].live /\ global_payout_registry[m].live) =>
            /\ ( /\ payout_registry[<<m, k>>].total_pending > 0
                 /\ vault_token[m] >= payout_registry[<<m, k>>].total_pending )
               => \/ \E payer \in Signers :
                         ClaimPendingPayoutsErr(m, payer, k, <<m, k>>, k) = "Ok"
                  \/ InitializeAccounts(m) = "Ok"
            /\ ( /\ referrer_registry[<<m, k>>].total_pending > 0
                 /\ vault_token[m] >= referrer_registry[<<m, k>>].total_pending )
               => \/ \E payer \in Signers :
                         ClaimPendingBonusesErr(m, payer, k, <<m, k>>) = "Ok"
                  \/ InitializeAccounts(m) = "Ok"

\* C13: claim_pending_bonuses has the shape of the payout claim.  Every step
\* that pays a referrer is made in a vault that is not paused, on a
\* ReferrerRegistry whose total_pending is B > 0 with a vault balance of at
\* least B; it sets total_pending to 0, adds B to total_claimed and moves B
\* from the vault to the token account of the registry's referrer, and changes
\* nothing else.  A call whose accounts validate succeeds when the vault is not
\* paused, B > 0, the balance is at least B (and total_claimed + B fits in
\* u64); it fails with ProgramPaused when paused, else with NoPendingBonuses
\* when B = 0, else with InsufficientBalance when the balance is below B, and a
\* failing handler leaves the registry and the records as they are and
\* transfers nothing.
C13_BonusClaimShape ==
    /\ [](\A m \in Mints, payer \in Signers, referrer \in Pubkeys,
            reg \in RegistryKeys :
              LET r == claim_pending_bonuses(m, referrer, reg)
                  e == ClaimPendingBonusesErr(m, payer, referrer, reg)
                  B == referrer_registry[reg].total_pending
                  valid == ClaimPendingBonusesAccounts(m, payer, referrer, reg) = "Ok"
              IN
              /\ (e = "Ok") <=>
                     ( /\ valid
                       /\ ~config[m].paused
                       /\ B > 0
                       /\ vault_token[m] >= B
                       /\ referrer_registry[reg].total_claimed + B <= U64_MAX )
              /\ (valid /\ config[m].paused) => e = "ProgramPaused"
              /\ (valid /\ ~config[m].paused /\ B = 0) => e = "NoPendingBonuses"
              /\ (valid /\ ~config[m].paused /\ vault_token[m] < B)
                     => e = "InsufficientBalance"
              /\ r.err # "Ok" =>
                     /\ r.transfer = 0
                     /\ r.referrer_registry = referrer_registry[reg]
                     /\ r.referral_bonus = referral_bonus)
    /\ [][ ( /\ config' = config
             /\ referral_bonus' = referral_bonus
             /\ UNCHANGED <<payout_receipt, payout_registry, global_payout_registry>>
             /\ \A m \in Mints : vault_token'[m] <= vault_token[m] )
           => \E m \in Mints, reg \in RegistryKeys :
                 LET B == referrer_registry[reg].total_pending
                     referrer == referrer_registry[reg].referrer
                 IN
                 /\ B > 0
                 /\ ~config[m].paused
                 /\ vault_token[m] >= B
                 /\ referrer_registry' = [referrer_registry EXCEPT
                        ![reg] = [@ EXCEPT !.total_pending = 0,
                                           !.total_claimed = @ + B]]
                 /\ vault_token' = [vault_token EXCEPT ![m] = @ - B]
                 /\ wallet_token' = [wallet_token EXCEPT ![<<m, referrer>>] = @ + B]
         ]_vars

\* a referrer's bonus of 2 units was claimed in full
C13_Witness ==
    \E k \in RegistryKeys :
        /\ referrer_registry[k].live
        /\ referrer_registry[k].total_pending = 0
        /\ referrer_registry[k].total_claimed = 2
        /\ wallet_token[k] >= 2

\* C14: amount overflow is atomic.  A register_payout call that passes the
\* account validation and the paused, zero-amount and hash checks, and whose
\* amount added to the recipient's total_pending or to the global
\* total_pending exceeds u64::MAX, fails with Overflow and leaves no receipt and
\* both registries as they were, also when only the global addition overflows.
\* A claim that passes its checks and whose total_pending added to the
\* registry's or the global total_claimed exceeds u64::MAX fails with Overflow,
\* changes neither registry and transfers nothing.  Totals never wrap or
\* saturate: every total stays in 0..u64::MAX, and total_pending +
\* total_claimed of a registry (of the global registry) is exactly the sum of
\* the amounts of the recipient's (the vault's) receipts.
C14_OverflowAtomic ==
    /\ \A m \in ULedger.mints, authority \in Signers, race_id \in RaceIds,
          recipient \in Pubkeys, points \in Points, amount \in Amounts :
          LET registry == payout_registry[<<m, recipient>>]
              global_registry == global_payout_registry[m]
              r == register_payout(m, race_id, hash(race_id), recipient, points, amount)
          IN
          ( /\ RegisterPayoutAccounts(m, authority, hash(race_id), recipient) = "Ok"
            /\ ~config[m].paused
            /\ amount > 0
            /\ \/ registry.total_pending + amount > U64_MAX
               \/ global_registry.total_pending + amount > U64_MAX )
          => /\ RegisterPayoutErr(m, authority, race_id, hash(race_id), recipient,
                                  points, amount) = "Overflow"
             /\ r.payout_receipt = {}
             /\ r.payout_registry = registry
             /\ r.global_payout_registry = global_registry
    /\ \A m \in ULedger.mints, payer \in Signers, recipient \in Pubkeys :
          LET reg == <<m, recipient>>
              registry == payout_registry[reg]
              global_registry == global_payout_registry[m]
              r == claim_pending_payouts(m, payer, recipient, reg, recipient)
          IN
          ( /\ ClaimPendingPayoutsAccounts(m, payer, recipient, reg) = "Ok"
            /\ ~config[m].paused
            /\ registry.total_pending > 0
            /\ vault_token[m] >= registry.total_pending
            /\ \/ registry.total_claimed + registry.total_pending > U64_MAX
               \/ global_registry.total_claimed + registry.total_pending > U64_MAX )
          => /\ ClaimPendingPayoutsErr(m, payer, recipient, reg, recipient) = "Overflow"
             /\ r.payout_registry = registry
             /\ r.global_payout_registry = global_registry
             /\ r.transfer = 0
    /\ \A m \in ULedger.mints :
          /\ global_payout_registry[m].total_pending \in 0..U64_MAX
          /\ global_payout_registry[m].total_claimed \in 0..U64_MAX
          /\ global_payout_registry[m].total_pending
               + global_payout_registry[m].total_claimed = SumAmounts(ReceiptsIn(m))
          /\ \A k \in Pubkeys :
                /\ payout_registry[<<m, k>>].total_pending \in 0..U64_MAX
                /\ payout_registry[<<m, k>>].total_claimed \in 0..U64_MAX
                /\ payout_registry[<<m, k>>].total_pending
                     + payout_registry[<<m, k>>].total_claimed
                   = SumAmounts(ReceiptsOf(m, k))

\* a registration of 2 units fits the recipient's total_pending, overflows the
\* global total_pending only, and is refused with Overflow
C14_Witness ==
    \E m \in ULedger.mints, r1 \in Pubkeys, r2 \in Pubkeys, race_id \in RaceIds :
        /\ r1 # r2
        /\ payout_registry[<<m, r1>>].total_pending = 2
        /\ payout_registry[<<m, r2>>].total_pending + 2 <= U64_MAX
        /\ global_payout_registry[m].total_pending + 2 > U64_MAX
        /\ RegisterPayoutErr(m, config[m].authority, race_id, hash(race_id), r2,
                             1, 2) = "Overflow"

\* C15: in every reachable state, GlobalPayoutRegistry.total_recipient_count of
\* a vault equals the number of distinct recipients, among all recipient keys,
\* that have at least one PayoutReceipt in that vault.
C15_RecipientCountIsDistinct ==
    \A m \in ULedger.mints :
        global_payout_registry[m].total_recipient_count
          = Cardinality({k \in Pubkeys : ReceiptsOf(m, k) # {}})

\* C16: register_payout succeeds only if race_id_hash is the digest of
\* race_id.  A call with another hash never succeeds, writes no receipt and
\* changes no registry, and it fails with InvalidRaceIdHash when it passes the
\* account validation and the paused and zero-amount checks.  So the
\* race_id_hash of every stored PayoutReceipt is the digest of a race id.
C16_HashValidation ==
    /\ \A m \in ULedger.mints, authority \in Signers, race_id \in RaceIds,
          race_id_hash \in Digests, recipient \in Pubkeys, points \in Points,
          amount \in Amounts :
          LET e == RegisterPayoutErr(m, authority, race_id, race_id_hash,
                                     recipient, points, amount)
              r == register_payout(m, race_id, race_id_hash, recipient, points,
                                   amount)
          IN
          /\ e = "Ok" => race_id_hash = hash(race_id)
          /\ race_id_hash # hash(race_id) =>
                /\ r.payout_receipt = {}
                /\ r.payout_registry = payout_registry[<<m, recipient>>]
                /\ r.global_payout_registry = global_payout_registry[m]
                /\ ( /\ RegisterPayoutAccounts(m, authority, race_id_hash,
                                               recipient) = "Ok"
                     /\ ~config[m].paused
                     /\ amount > 0 ) => e = "InvalidRaceIdHash"
    /\ \A r \in payout_receipt :
          \E race_id \in RaceIds : r.race_id_hash = hash(race_id)

\* receipts of both races are stored, and a call with a hash that is not the
\* digest of its race id is refused
C16_Witness ==
    \E m \in ULedger.mints, recipient \in Pubkeys :
        /\ ReceiptsAt(m, hash("race-1"), recipient) # {}
        /\ ReceiptsAt(m, hash("race-2"), recipient) # {}
        /\ RegisterPayoutErr(m, config[m].authority, "race-1", hash("race-2"),
                             1, 1, 1) = "InvalidRaceIdHash"

\* C17: register_referral_bonus with referrer = referee never succeeds, creates
\* no record and changes no registry, and fails with SelfReferralNotAllowed
\* when it passes the account validation and the paused, zero-amount and
\* length checks; the same call with referrer # referee succeeds (its amount
\* fitting the registry's total_pending).  So no stored ReferralBonus has
\* referrer = referee.
C17_SelfReferralRejected ==
    /\ \A m \in UAdmin.mints, authority \in Signers, race_id \in RaceIds,
          referrer \in Pubkeys, referee \in Pubkeys, amount \in Amounts :
          LET e == RegisterReferralBonusErr(m, authority, race_id, referrer,
                                            referee, amount)
              r == register_referral_bonus(m, race_id, referrer, referee, amount)
              reached ==
                  /\ RegisterReferralBonusAccounts(m, authority, race_id,
                                                   referrer, referee) = "Ok"
                  /\ ~config[m].paused
                  /\ amount > 0
          IN
          /\ referrer = referee =>
                /\ e # "Ok"
                /\ r.referral_bonus = {}
                /\ r.referrer_registry = referrer_registry[<<m, referrer>>]
                /\ reached => e = "SelfReferralNotAllowed"
          /\ ( /\ referrer # referee
               /\ reached
               /\ referrer_registry[<<m, referrer>>].total_pending + amount
                    <= U64_MAX ) => e = "Ok"
    /\ \A b \in referral_bonus : b.referrer # b.referee

\* a bonus is recorded for a referrer, and the authority's call that names the
\* same key as referrer and referee is refused
C17_Witness ==
    \E b \in referral_bonus :
        /\ b.referrer # b.referee
        /\ RegisterReferralBonusErr(b.config, config[b.config].authority,
               b.race_id, b.referrer, b.referrer, b.amount)
             = "SelfReferralNotAllowed"

\* C18: validation errors abort with no state change.  Made by the authority
\* of a vault that is not paused, with accounts that are otherwise valid:
\* register_payout and register_referral_bonus with amount = 0 fail with
\* ZeroAmount, register_referral_bonus with a race id longer than 32 bytes
\* fails with RaceIdTooLong, and claim_pending_payouts whose recipient argument
\* differs from the recipient account fails with InvalidRecipient; each leaves
\* the receipts, records and registries as they were and moves no tokens.
C18_ValidationErrors ==
    \A m \in UAdmin.mints :
        (config[m].live /\ ~config[m].paused) =>
        /\ \A race_id \in RaceIds, recipient \in Pubkeys, points \in Points :
              LET r == register_payout(m, race_id, hash(race_id), recipient,
                                       points, 0)
              IN
              RegisterPayoutAccounts(m, config[m].authority, hash(race_id),
                                     recipient) = "Ok"
              => /\ RegisterPayoutErr(m, config[m].authority, race_id,
                                      hash(race_id), recipient, points, 0)
                      = "ZeroAmount"
                 /\ r.payout_receipt = {}
                 /\ r.payout_registry = payout_registry[<<m, recipient>>]
                 /\ r.global_payout_registry = global_payout_registry[m]
        /\ \A race_id \in RaceIds, referrer \in Pubkeys, referee \in Pubkeys :
              LET r == register_referral_bonus(m, race_id, referrer, referee, 0)
              IN
              RegisterReferralBonusAccounts(m, config[m].authority, race_id,
                                            referrer, referee) = "Ok"
              => /\ RegisterReferralBonusErr(m, config[m].authority, race_id,
                                             referrer, referee, 0) = "ZeroAmount"
                 /\ r.referral_bonus = {}
                 /\ r.referrer_registry = referrer_registry[<<m, referrer>>]
        /\ \A race_id \in ReferralRaceIds, referrer \in Pubkeys,
              referee \in Pubkeys, amount \in Amounts :
              LET r == register_referral_bonus(m, race_id, referrer, referee,
                                               amount)
              IN
              (Len(race_id) > 32 /\ amount > 0 /\ referrer # referee)
              => /\ RegisterReferralBonusErr(m, config[m].authority, race_id,
                                             referrer, referee, amount)
                      = "RaceIdTooLong"
                 /\ r.referral_bonus = {}
                 /\ r.referrer_registry = referrer_registry[<<m, referrer>>]
        /\ \A payer \in Signers, recipient \in Pubkeys, recipient_arg \in Pubkeys :
              LET reg == <<m, recipient>>
                  r == claim_pending_payouts(m, payer, recipient, reg,
                                             recipient_arg)
              IN
              ( /\ ClaimPendingPayoutsAccounts(m, payer, recipient, reg) = "Ok"
                /\ recipient_arg # recipient )
              => /\ ClaimPendingPayoutsErr(m, payer, recipient, reg,
                                           recipient_arg) = "InvalidRecipient"
                 /\ r.payout_registry = payout_registry[reg]
                 /\ r.global_payout_registry = global_payout_registry[m]
                 /\ r.transfer = 0

\* C19: monotonicity.  In every step, for each PayoutRegistry and for each
\* GlobalPayoutRegistry: total_claimed and the counts (payout_count;
\* total_payout_count and total_recipient_count) do not decrease,
\* total_pending + total_claimed does not decrease, and if total_pending
\* decreases then total_claimed of the same registry grows by exactly the
\* amount total_pending fell by.
C19_Monotonicity ==
    [][ /\ \A k \in RegistryKeys :
              LET a == payout_registry[k]
                  b == payout_registry'[k]
              IN
              /\ b.total_claimed >= a.total_claimed
              /\ b.payout_count >= a.payout_count
              /\ b.total_pending + b.total_claimed
                   >= a.total_pending + a.total_claimed
              /\ b.total_pending < a.total_pending =>
                    b.total_claimed - a.total_claimed
                      = a.total_pending - b.total_pending
        /\ \A m \in Mints :
              LET a == global_payout_registry[m]
                  b == global_payout_registry'[m]
              IN
              /\ b.total_claimed >= a.total_claimed
              /\ b.total_payout_count >= a.total_payout_count
              /\ b.total_recipient_count >= a.total_recipient_count
              /\ b.total_pending + b.total_claimed
                   >= a.total_pending + a.total_claimed
              /\ b.total_pending < a.total_pending =>
                    b.total_claimed - a.total_claimed
                      = a.total_pending - b.total_pending
      ]_vars

\* a claim has moved pending to claimed and a later registration is pending
C19_Witness ==
    \E k \in RegistryKeys :
        /\ payout_registry[k].total_claimed > 0
        /\ payout_registry[k].total_pending > 0
        /\ global_payout_registry[k[1]].total_claimed > 0
        /\ global_payout_registry[k[1]].total_pending > 0

\* C20: append-only records.  In every step, every PayoutReceipt and every
\* ReferralBonus that exists before the step exists after it with all its
\* fields as they were (registration, claim, pause, authority transfer and
\* close included).
C20_AppendOnlyRecords ==
    [][ /\ payout_receipt \subseteq payout_receipt'
        /\ referral_bonus \subseteq referral_bonus' ]_vars

\* a receipt and a bonus record are still there, unchanged, after their amounts
\* were claimed and the vault's Config was closed
C20_Witness ==
    \E r \in payout_receipt, b \in referral_bonus :
        /\ r.config = b.config
        /\ ~config[r.config].live
        /\ payout_registry[<<r.config, r.recipient>>].total_claimed = r.amount
        /\ referrer_registry[<<b.config, b.referrer>>].total_claimed = b.amount
        /\ b.claimed = FALSE

\* the ReferralBonus accounts of a referrer under a vault
BonusesOf(m, referrer) ==
    {b \in referral_bonus : b.config = m /\ b.referrer = referrer}

\* C21: idempotent referral registration.  register_referral_bonus for a
\* (race_id, referrer, referee) that already has a ReferralBonus under the
\* vault never succeeds, whoever signs and whatever the amount, and fails with
\* the account-already-in-use error of `init`; so for every vault and referrer
\* the registry's total_pending + total_claimed is the sum of the amounts of
\* the referrer's records and bonus_count is their number.
C21_IdempotentReferral ==
    /\ \A b \in referral_bonus, authority \in Signers, amount \in Amounts :
          LET e == RegisterReferralBonusErr(b.config, authority, b.race_id,
                                            b.referrer, b.referee, amount)
          IN
          /\ e # "Ok"
          /\ config[b.config].live => e = "AccountAlreadyInUse"
    /\ \A m \in Mints, referrer \in Pubkeys :
          LET registry == referrer_registry[<<m, referrer>>] IN
          /\ registry.total_pending + registry.total_claimed
               = SumAmounts(BonusesOf(m, referrer))
          /\ registry.bonus_count = Cardinality(BonusesOf(m, referrer))

\* a referrer has two records, part of their amount is claimed, and the
\* authority's repeat of one of them is refused
C21_Witness ==
    \E m \in Mints, referrer \in Pubkeys :
        /\ Cardinality(BonusesOf(m, referrer)) = 2
        /\ referrer_registry[<<m, referrer>>].total_claimed > 0
        /\ \E b \in BonusesOf(m, referrer) :
              RegisterReferralBonusErr(m, config[m].authority, b.race_id,
                  b.referrer, b.referee, b.amount) = "AccountAlreadyInUse"

\* C22: vault funds leave custody only through a claim.  In every step: a
\* vault balance that falls by D > 0 falls in a step that moves exactly D from
\* total_pending to total_claimed of one PayoutRegistry (and of the vault's
\* GlobalPayoutRegistry) or of one ReferrerRegistry, and every step that moves
\* D from pending to claimed takes exactly D out of one vault; a step that
\* changes Config, a receipt or a record (registration, pause toggle, authority
\* transfer, close) leaves every vault balance unchanged, as do reconcile and
\* the read accessors, which change nothing; a vault balance that grows by D
\* grows in a step that takes D from one signer's token account and changes no
\* Config, receipt, record or registry.
C22_CustodyOnlyThroughClaims ==
    [][ LET PayoutClaim(m, D) ==
                \E reg \in RegistryKeys :
                    /\ payout_registry[reg].total_pending = D
                    /\ payout_registry' = [payout_registry EXCEPT
                           ![reg] = [@ EXCEPT !.total_pending = 0,
                                              !.total_claimed = @ + D]]
                    /\ global_payout_registry' = [global_payout_registry EXCEPT
                           ![m] = [@ EXCEPT !.total_pending = @ - D,
                                            !.total_claimed = @ + D]]
                    /\ referrer_registry' = referrer_registry
            BonusClaim(m, D) ==
                \E reg \in RegistryKeys :
                    /\ referrer_registry[reg].total_pending = D
                    /\ referrer_registry' = [referrer_registry EXCEPT
                           ![reg] = [@ EXCEPT !.total_pending = 0,
                                              !.total_claimed = @ + D]]
                    /\ payout_registry' = payout_registry
                    /\ global_payout_registry' = global_payout_registry
        IN
        /\ \A m \in Mints :
              LET D == vault_token[m] - vault_token'[m] IN
              /\ D > 0 =>
                    /\ PayoutClaim(m, D) \/ BonusClaim(m, D)
                    /\ \A n \in Mints \ {m} : vault_token'[n] = vault_token[n]
                    /\ UNCHANGED <<config, payout_receipt, referral_bonus>>
              /\ D < 0 =>
                    /\ \E depositor \in Signers :
                          wallet_token' = [wallet_token EXCEPT
                              ![<<m, depositor>>] = @ + D]
                    /\ UNCHANGED <<config, global_payout_registry, payout_receipt,
                                   payout_registry, referral_bonus,
                                   referrer_registry>>
        /\ \A reg \in RegistryKeys :
              /\ payout_registry'[reg].total_claimed > payout_registry[reg].total_claimed
                    => \E m \in Mints :
                          vault_token[m] - vault_token'[m]
                            = payout_registry'[reg].total_claimed
                                - payout_registry[reg].total_claimed
              /\ referrer_registry'[reg].total_claimed
                   > referrer_registry[reg].total_claimed
                    => \E m \in Mints :
                          vault_token[m] - vault_token'[m]
                            = referrer_registry'[reg].total_claimed
                                - referrer_registry[reg].total_claimed
        /\ ( \/ config' # config
             \/ payout_receipt' # payout_receipt
             \/ referral_bonus' # referral_bonus ) => vault_token' = vault_token
      ]_vars

\* the vault was funded by a deposit and emptied by a payout claim and a bonus
\* claim
C22_Witness ==
    \E m \in Mints, k1 \in Pubkeys, k2 \in Pubkeys :
        /\ config[m].live
        /\ vault_token[m] = 0
        /\ payout_registry[<<m, k1>>].total_claimed > 0
        /\ referrer_registry[<<m, k2>>].total_claimed > 0

\* C23: the read accessors.  A get_pending_payouts, get_pending_bonuses,
\* get_all_bonuses or get_global_payout_stats call succeeds whenever Config
\* exists, the registry passed exists and (for the first three) its recipient
\* / referrer is the key passed, also while the vault is paused; it returns
\* the recipient / referrer, total_pending, total_claimed and count(s) that
\* the registry holds in the current state.  (The calls are steps that leave
\* every variable unchanged.)
C23_ReadAccessors ==
    /\ \A m \in Mints, k \in Pubkeys, reg \in RegistryKeys :
          /\ ( /\ config[m].live
               /\ payout_registry[reg].live
               /\ payout_registry[reg].recipient = k )
             => /\ GetPendingPayoutsAccounts(m, k, reg) = "Ok"
                /\ get_pending_payouts(reg).recipient = payout_registry[reg].recipient
                /\ get_pending_payouts(reg).total_pending
                     = payout_registry[reg].total_pending
                /\ get_pending_payouts(reg).total_claimed
                     = payout_registry[reg].total_claimed
                /\ get_pending_payouts(reg).payout_count
                     = payout_registry[reg].payout_count
          /\ ( /\ config[m].live
               /\ referrer_registry[reg].live
               /\ referrer_registry[reg].referrer = k )
             => /\ GetBonusesAccounts(m, k, reg) = "Ok"
                /\ \A got \in {get_pending_bonuses(reg), get_all_bonuses(reg)} :
                      /\ got.referrer = referrer_registry[reg].referrer
                      /\ got.total_pending = referrer_registry[reg].total_pending
                      /\ got.total_claimed = referrer_registry[reg].total_claimed
                      /\ got.bonus_count = referrer_registry[reg].bonus_count
    /\ \A m \in Mints :
          (config[m].live /\ global_payout_registry[m].live)
          => /\ GetGlobalPayoutStatsAccounts(m) = "Ok"
             /\ get_global_payout_stats(m).total_pending
                  = global_payout_registry[m].total_pending
             /\ get_global_payout_stats(m).total_claimed
                  = global_payout_registry[m].total_claimed
             /\ get_global_payout_stats(m).total_payout_count
                  = global_payout_registry[m].total_payout_count
             /\ get_global_payout_stats(m).total_recipient_count
                  = global_payout_registry[m].total_recipient_count

\* the vault is paused with a pending payout and a pending bonus, and the
\* accessors return them
C23_Witness ==
    \E m \in Mints, k1 \in Pubkeys, k2 \in Pubkeys :
        /\ config[m].live /\ config[m].paused
        /\ GetPendingPayoutsAccounts(m, k1, <<m, k1>>) = "Ok"
        /\ get_pending_payouts(<<m, k1>>).total_pending > 0
        /\ GetBonusesAccounts(m, k2, <<m, k2>>) = "Ok"
        /\ get_pending_bonuses(<<m, k2>>).total_pending > 0
        /\ get_global_payout_stats(m).total_pending > 0

\* the amounts registered for a beneficiary under a vault: payouts and bonuses
RegisteredFor(m, k) == SumAmounts(ReceiptsOf(m, k)) + SumAmounts(BonusesOf(m, k))

\* C24: per-vault payout bound with several vaults.  For every vault V and
\* beneficiary X that starts without tokens, what X holds of V's mint (all of
\* it paid out of V's custody by claims) never exceeds the amount registered
\* for X under V; and a step that takes funds out of V's custody changes only a
\* PayoutRegistry or ReferrerRegistry created under V.
C24_PerVaultBound ==
    /\ [](\A m \in Mints, k \in Pubkeys \ {1} :
              wallet_token[<<m, k>>] <= RegisteredFor(m, k))
    /\ [][ \A m \in Mints :
              vault_token'[m] < vault_token[m] =>
                  \A reg \in RegistryKeys :
                      ( \/ payout_registry'[reg] # payout_registry[reg]
                        \/ referrer_registry'[reg] # referrer_registry[reg] )
                      => reg[1] = m
         ]_vars

\* C25: the 32-bit counters never wrap.  A register_payout call made when
\* the recipient's payout_count or the vault's total_payout_count is u32::MAX,
\* or for a new recipient when total_recipient_count is u32::MAX, and a
\* register_referral_bonus call made when the referrer's bonus_count is
\* u32::MAX, does not succeed and leaves no receipt or record and the
\* registries as they were; and no count ever falls in a step.
C25_CountersNeverWrap ==
    /\ [](\A m \in UCount.mints, authority \in Signers, race_id \in RaceIds,
            k \in Pubkeys, k2 \in Pubkeys, amount \in Amounts :
              LET registry == payout_registry[<<m, k>>]
                  global_registry == global_payout_registry[m]
                  r == register_payout(m, race_id, hash(race_id), k, 1, amount)
                  b == register_referral_bonus(m, race_id, k, k2, amount)
              IN
              /\ ( \/ registry.payout_count = U32_MAX
                   \/ global_registry.total_payout_count = U32_MAX
                   \/ /\ registry.recipient = DefaultPubkey
                      /\ global_registry.total_recipient_count = U32_MAX )
                 => /\ RegisterPayoutErr(m, authority, race_id, hash(race_id), k,
                                         1, amount) # "Ok"
                    /\ r.payout_receipt = {}
                    /\ r.payout_registry = registry
                    /\ r.global_payout_registry = global_registry
              /\ referrer_registry[<<m, k>>].bonus_count = U32_MAX
                 => /\ RegisterReferralBonusErr(m, authority, race_id, k, k2,
                                                amount) # "Ok"
                    /\ b.referral_bonus = {}
                    /\ b.referrer_registry = referrer_registry[<<m, k>>])
    /\ [][ /\ \A reg \in RegistryKeys :
                /\ payout_registry'[reg].payout_count
                     >= payout_registry[reg].payout_count
                /\ referrer_registry'[reg].bonus_count
                     >= referrer_registry[reg].bonus_count
           /\ \A m \in Mints :
                /\ global_payout_registry'[m].total_payout_count
                     >= global_payout_registry[m].total_payout_count
                /\ global_payout_registry'[m].total_recipient_count
                     >= global_payout_registry[m].total_recipient_count
         ]_vars

\* C26: in every reachable state the payout_count of a recipient's
\* PayoutRegistry equals the number of PayoutReceipts of that recipient under
\* the vault; a step that creates a receipt creates exactly one and adds
\* exactly 1 to the payout_count of its recipient's registry and leaves every
\* other payout_count as it is, and every other step (claims included) leaves
\* every payout_count as it is.
C26_PayoutCountIsReceipts ==
    /\ [](\A m \in Mints, k \in Pubkeys :
              payout_registry[<<m, k>>].payout_count
                = Cardinality(ReceiptsOf(m, k)))
    /\ [][ IF payout_receipt' # payout_receipt
           THEN \E r \in payout_receipt' \ payout_receipt :
                   /\ payout_receipt' = payout_receipt \cup {r}
                   /\ \A reg \in RegistryKeys :
                         payout_registry'[reg].payout_count
                           = payout_registry[reg].payout_count
                               + (IF reg = <<r.config, r.recipient>> THEN 1 ELSE 0)
           ELSE \A reg \in RegistryKeys :
                   payout_registry'[reg].payout_count
                     = payout_registry[reg].payout_count
         ]_vars

\* a recipient has two receipts and payout_count 2 after claiming the first
C26_Witness ==
    \E m \in Mints, k \in Pubkeys :
        /\ Cardinality(ReceiptsOf(m, k)) = 2
        /\ payout_registry[<<m, k>>].payout_count = 2
        /\ payout_registry[<<m, k>>].total_claimed > 0
        /\ payout_registry[<<m, k>>].total_pending > 0

\* C27: a paused vault can always be resumed.  In every reachable state in
\* which Config exists and paused is true, update_config and
\* transfer_authority signed by the current authority pass the account
\* validation, update_config with the value false leaves paused = false, and
\* transfer_authority leaves paused as it is; when the current authority is a
\* key that can sign, the update_config step that resumes the vault and a
\* transfer_authority step are enabled.  In every state in which Config
\* exists, update_config called with no value leaves paused (and the
\* authority) unchanged.
C27_PausedCanResume ==
    \A m \in UAdmin.mints :
        /\ (config[m].live /\ config[m].paused) =>
              /\ AdminAccounts(m, config[m].authority) = "Ok"
              /\ ~update_config(m, [some |-> TRUE, value |-> FALSE]).paused
              /\ config[m].authority \in Signers =>
                    /\ ENABLED (UpdateConfig(UAdmin) /\ ~config'[m].paused)
                    /\ ENABLED (TransferAuthority(UAdmin)
                                  /\ config'[m].authority # config[m].authority)
              /\ \A new_authority \in Pubkeys :
                    transfer_authority(m, new_authority).paused
        /\ config[m].live =>
              update_config(m, [some |-> FALSE, value |-> FALSE]) = config[m]

\* the vault is paused under an authority it was transferred to
C27_Witness ==
    \E m \in UAdmin.mints :
        /\ config[m].live
        /\ config[m].paused
        /\ config[m].authority = 2

====
